---- MODULE Spec2Model ----
(***************************************************************************)
(* The sonrisas content backend: seven REST resources (heros,              *)
(* team_members, other_info, locations, services, promotions, offers)      *)
(* stored one table each, plus the location/service association table.     *)
(* Every handler of app/main.py opens one session, reads, changes ORM      *)
(* objects and commits; the tables of app/models.py carry the unique,      *)
(* NOT NULL, primary-key and foreign-key constraints.                      *)
(***************************************************************************)
EXTENDS Integers, Sequences, FiniteSets, TLC

(* ------------------------------ bounds -------------------------------- *)

\* Ids one table's sequence issues in a behaviour (so also the rows it holds).
MaxIds == 2

\* Readings of the wall clock after the application was imported.
MaxTime == 2

\* Locations created where the association routes are explored.
MaxLocations == 1

\* Services created where the requests of several workers interleave.
MaxServices == 1

(* ------------------------------ schema -------------------------------- *)

\* The value of datetime.now(UTC) when app/models.py was imported: the
\* onupdate argument of updated_at is evaluated once, at class definition.
ImportTime == 0

Resources ==
    {"hero", "team_member", "other_info", "location", "service",
     "promotion", "offer"}

NULL == "null"      \* Python None / SQL NULL
UNSET == "unset"    \* a field the request body does not carry

Strings == {"A", "B"}
Bools == {"true", "false"}
Dates == {"d1", "d2"}

\* The columns a request can write.  The image column (an uploaded file,
\* NOT NULL, written like heading) is left out of every table.
Fields(r) ==
    CASE r = "hero" -> {"heading", "description"}
      [] r = "team_member" -> {"heading", "role", "description"}
      [] r = "other_info" -> {"name", "value"}
      [] r = "location" -> {"heading", "address", "phones_description",
                            "operating_hours", "google_maps_embed_url"}
      [] r = "service" -> {"heading", "description", "featured"}
      [] r = "promotion" -> {"heading", "description", "expire"}
      [] r = "offer" -> {"heading", "description"}

\* Columns declared Mapped[... | None].
Nullable(r) ==
    CASE r = "other_info" -> {"value"}
      [] r = "location" -> {"google_maps_embed_url"}
      [] r = "promotion" -> {"expire"}
      [] OTHER -> {}

\* Columns declared mapped_column(unique=True).
UniqueCols(r) ==
    CASE r = "team_member" -> {"heading"}
      [] r = "service" -> {"heading"}
      [] r = "other_info" -> {"name"}
      [] OTHER -> {}

\* The values requests supply for a column.  Two values show a change; the
\* str columns that only repeat another column of their table (same
\* declaration, same path through the handlers) are given one.
Domain(r, f) ==
    IF r = "service" /\ f = "featured" THEN Bools
    ELSE IF r = "promotion" /\ f = "expire" THEN Dates
    ELSE IF \/ r = "location" /\ f \in {"phones_description", "operating_hours"}
            \/ r = "team_member" /\ f = "description"
         THEN {"A"}
    ELSE Strings

Values == Strings \cup Bools \cup Dates

Ids == 1 .. (MaxIds + 1)

\* The location ids of the association requests.
LocationIds == 1 .. MaxLocations

\* The service ids of the requests that several workers serve.
ServiceIds == 1 .. MaxServices

(* ------------------------------- state -------------------------------- *)

VARIABLES
    now,      \* the wall clock, read by datetime.now(UTC)
    table,    \* table[r]: the rows of resource r
    seq,      \* seq[r]: the last id the table's serial sequence issued
    assoc,    \* the rows of location_service_associations
    resp,     \* the last request served and its response
    session   \* session[w]: what worker w's open session has loaded

vars == <<now, table, seq, assoc, resp, session>>

\* key: the id in the path, or the id of the row a POST stored (0: none);
\* name: the name in the path of an other_info route ("": none);
\* ids: the service ids a location/service association request names, or
\*      the ids at the far end of the association rows a DELETE cascaded to;
\* body: the ids of the rows a response lists;
\* row: the row a lookup by name returns.
Response(op, status, key, body) ==
    [op |-> op, status |-> status, key |-> key, name |-> "", ids |-> {},
     body |-> body, row |-> {}]

ResponseByName(op, status, name) ==
    [op |-> op, status |-> status, key |-> 0, name |-> name, ids |-> {},
     body |-> <<>>, row |-> {}]

ResponseOn(op, status, key, ids, body) ==
    [op |-> op, status |-> status, key |-> key, name |-> "", ids |-> ids,
     body |-> body, row |-> {}]

\* The worker processes that serve requests side by side.
Workers == {"w1", "w2"}

\* A worker between requests: get_session has closed its session.
Idle == [op |-> "idle", key |-> 0, ids |-> {}, loaded |-> {}, new |-> {}]

Init ==
    /\ now = ImportTime + 1
    /\ table = [r \in Resources |-> {}]
    /\ seq = [r \in Resources |-> 0]
    /\ assoc = {}
    /\ resp = Response("none", 0, 0, <<>>)
    /\ session = [w \in Workers |-> Idle]

(* ----------------------- request bodies (pydantic) -------------------- *)

\* What a create body may hold for column f: a value of its type, and None
\* for an optional field.
In(r, f) == Domain(r, f) \cup (IF f \in Nullable(r) THEN {NULL} ELSE {})

\* The bodies the *In model of r accepts (an omitted optional field is its
\* default: None, and False for ServiceIn.featured).
CreatePayloads ==
    [r \in Resources |->
        CASE r = "hero" ->
               [heading : In(r, "heading"), description : In(r, "description")]
          [] r = "team_member" ->
               [heading : In(r, "heading"), role : In(r, "role"),
                description : In(r, "description")]
          [] r = "other_info" ->
               [name : In(r, "name"), value : In(r, "value")]
          [] r = "location" ->
               [heading : In(r, "heading"), address : In(r, "address"),
                phones_description : In(r, "phones_description"),
                operating_hours : In(r, "operating_hours"),
                google_maps_embed_url : In(r, "google_maps_embed_url")]
          [] r = "service" ->
               [heading : In(r, "heading"), description : In(r, "description"),
                featured : In(r, "featured")]
          [] r = "promotion" ->
               [heading : In(r, "heading"), description : In(r, "description"),
                expire : In(r, "expire")]
          [] r = "offer" ->
               [heading : In(r, "heading"), description : In(r, "description")]]

\* The body of a PUT that carries no field.
Blank(r) == [f \in Fields(r) |-> UNSET]

\* The bodies of the explored PUT requests: every field of the *Update model
\* is optional; at most one is supplied, as a value or as an explicit null.
UpdatePayloads ==
    [r \in Resources |->
        {Blank(r)} \cup
        UNION {{[Blank(r) EXCEPT ![f] = v] : v \in Domain(r, f) \cup {NULL}} :
                  f \in Fields(r)}]

\* model_dump(exclude_none=True): an omitted field holds its default None.
ExcludeNone(p) ==
    [f \in {g \in DOMAIN p : p[g] \notin {NULL, UNSET}} |-> p[f]]

\* model_dump(exclude_unset=True): the fields in model_fields_set.
ExcludeUnset(p) ==
    [f \in {g \in DOMAIN p : p[g] # UNSET} |-> p[f]]

\* update_promotion: "if promotion_in.expire is None: promotion_in.expire =
\* None".  The assignment puts expire in model_fields_set.
AssignExpire(p) ==
    IF p["expire"] \in {NULL, UNSET} THEN [p EXCEPT !["expire"] = NULL] ELSE p

(* ------------------------------ the store ----------------------------- *)

\* session.get(Model, id): the row or None.
Get(rows, id) == {x \in rows : x.id = id}

\* select(OtherInfo): every row, whatever its name.
GetUnfiltered(rows, name) == rows

\* select(OtherInfo).where(OtherInfo.name == info_name)
GetByName(rows, name) == {x \in rows : x.cols["name"] = name}

\* for key, val in dict.items(): setattr(obj, key, val)
SetAttrs(row, d) ==
    [row EXCEPT !.cols =
        [f \in DOMAIN row.cols |-> IF f \in DOMAIN d THEN d[f] ELSE row.cols[f]]]

\* NOT NULL: every column not declared "| None".
NotNullOk(r, row) ==
    \A f \in Fields(r) \ Nullable(r) : row.cols[f] # NULL

\* unique=True: no other row of the table holds the value.
UniqueOk(r, rows, row) ==
    \A f \in UniqueCols(r) :
        \A x \in rows : x.id # row.id => x.cols[f] # row.cols[f]

\* insert_default=lambda: datetime.now(UTC), for created_at and updated_at.
NewRow(id, p) ==
    [id |-> id, created_at |-> now, updated_at |-> now, cols |-> p]

\* The UPDATE the flush emits for a dirty row: the changed columns, and
\* updated_at from its onupdate default.
Touched(row) == [row EXCEPT !.updated_at = ImportTime]

\* session.commit() of a new object: the flush INSERTs it.
\* ok: the table after the commit.  Otherwise IntegrityError, nothing stored.
CommitInsert(r, rows, row) ==
    IF NotNullOk(r, row) /\ UniqueOk(r, rows, row)
    THEN [ok |-> TRUE, rows |-> rows \cup {row}]
    ELSE [ok |-> FALSE, rows |-> rows]

\* session.commit() of a loaded object after the setattr loop.  An object
\* with no changed column is not flushed; otherwise the flush UPDATEs it.
CommitUpdate(r, rows, old, new) ==
    IF new.cols = old.cols
    THEN [ok |-> TRUE, rows |-> rows]
    ELSE IF NotNullOk(r, new) /\ UniqueOk(r, rows, new)
    THEN [ok |-> TRUE, rows |-> (rows \ {old}) \cup {Touched(new)}]
    ELSE [ok |-> FALSE, rows |-> rows]

(* --------------------------- shared helpers --------------------------- *)

\* order_by(Model.created_at): the ids of the rows, oldest first.
OrderByCreatedAsc(rows) ==
    {s \in [1 .. Cardinality(rows) -> {x.id : x \in rows}] :
        /\ \A i, j \in DOMAIN s : i # j => s[i] # s[j]
        /\ \A i, j \in DOMAIN s :
              i < j => \A x, y \in rows :
                  (x.id = s[i] /\ y.id = s[j]) => x.created_at <= y.created_at}

\* order_by(Model.created_at.desc()): the ids of the rows, newest first.
\* Rows of equal created_at have no order of their own in the statement:
\* the database may return them either way round.
OrderByCreatedDesc(rows) ==
    {s \in [1 .. Cardinality(rows) -> {x.id : x \in rows}] :
        /\ \A i, j \in DOMAIN s : i # j => s[i] # s[j]
        /\ \A i, j \in DOMAIN s :
              i < j => \A x, y \in rows :
                  (x.id = s[i] /\ y.id = s[j]) => x.created_at >= y.created_at}

\* A relationship without the delete cascade owns no association row.
NoAssociations(col, id) == {}

\* relationship(cascade="... delete, delete-orphan"): the association rows a
\* Location ("location_id") or a Service ("service_id") owns.
OwnedAssociations(col, id) == {a \in assoc : a[col] = id}

\* Time passes.
Tick ==
    /\ now < ImportTime + MaxTime
    /\ now' = now + 1
    /\ UNCHANGED <<table, seq, assoc, resp, session>>

(* ------------------------------ hero ------------------------------ *)

\* POST: Hero(**body), session.add, session.commit.
\* No except clause: an IntegrityError leaves the handler (500).
create_hero(p) ==
    /\ seq["hero"] < MaxIds
    /\ LET id == seq["hero"] + 1
           c == CommitInsert("hero", table["hero"], NewRow(id, p))
       IN /\ seq' = [seq EXCEPT !["hero"] = id]
          /\ table' = [table EXCEPT !["hero"] = c.rows]
          /\ resp' = IF c.ok
                     THEN Response("create_hero", 201, id, <<id>>)
                     ELSE Response("create_hero", 500, 0, <<>>)
    /\ UNCHANGED <<session, now, assoc>>

\* GET: select(...).order_by(created_at.desc()).
get_heros ==
    /\ \E s \in OrderByCreatedDesc(table["hero"]) :
          resp' = Response("get_heros", 200, 0, s)
    /\ UNCHANGED <<session, now, table, seq, assoc>>

\* PUT: session.get, 404 if None; setattr for each item of the dumped
\* body; session.commit.  No except clause.
update_hero(id, p) ==
    /\ LET found == Get(table["hero"], id) IN
       IF found = {}
       THEN /\ table' = table
            /\ resp' = Response("update_hero", 404, id, <<>>)
       ELSE LET old == CHOOSE x \in found : TRUE
                new == SetAttrs(old, ExcludeNone(p))
                c == CommitUpdate("hero", table["hero"], old, new)
            IN /\ table' = [table EXCEPT !["hero"] = c.rows]
               /\ resp' = Response("update_hero", IF c.ok THEN 200 ELSE 500,
                                   id, <<>>)
    /\ UNCHANGED <<session, now, seq, assoc>>

\* DELETE: session.get, 404 if None; session.delete, session.commit.
delete_hero(id) ==
    /\ LET found == Get(table["hero"], id) IN
       IF found = {}
       THEN /\ table' = table
            /\ assoc' = assoc
            /\ resp' = Response("delete_hero", 404, id, <<>>)
       ELSE /\ table' = [table EXCEPT !["hero"] = table["hero"] \ found]
            /\ assoc' = assoc
            /\ resp' = Response("delete_hero", 204, id, <<>>)
    /\ UNCHANGED <<session, now, seq>>

(* ------------------------------ team_member ------------------------------ *)

\* POST: TeamMember(**body), session.add, session.commit.
\* IntegrityError is caught: 409.
create_team_member(p) ==
    /\ seq["team_member"] < MaxIds
    /\ LET id == seq["team_member"] + 1
           c == CommitInsert("team_member", table["team_member"], NewRow(id, p))
       IN /\ seq' = [seq EXCEPT !["team_member"] = id]
          /\ table' = [table EXCEPT !["team_member"] = c.rows]
          /\ resp' = IF c.ok
                     THEN Response("create_team_member", 201, id, <<id>>)
                     ELSE Response("create_team_member", 409, 0, <<>>)
    /\ UNCHANGED <<session, now, assoc>>

\* GET: select(...).order_by(created_at.desc()).
get_team_members ==
    /\ \E s \in OrderByCreatedDesc(table["team_member"]) :
          resp' = Response("get_team_members", 200, 0, s)
    /\ UNCHANGED <<session, now, table, seq, assoc>>

\* PUT: session.get, 404 if None; setattr for each item of the dumped
\* body; session.commit.  IntegrityError is caught: 409.
update_team_member(id, p) ==
    /\ LET found == Get(table["team_member"], id) IN
       IF found = {}
       THEN /\ table' = table
            /\ resp' = Response("update_team_member", 404, id, <<>>)
       ELSE LET old == CHOOSE x \in found : TRUE
                new == SetAttrs(old, ExcludeNone(p))
                c == CommitUpdate("team_member", table["team_member"], old, new)
            IN /\ table' = [table EXCEPT !["team_member"] = c.rows]
               /\ resp' = Response("update_team_member", IF c.ok THEN 200 ELSE 409,
                                   id, <<>>)
    /\ UNCHANGED <<session, now, seq, assoc>>

\* DELETE: session.get, 404 if None; session.delete, session.commit.
delete_team_member(id) ==
    /\ LET found == Get(table["team_member"], id) IN
       IF found = {}
       THEN /\ table' = table
            /\ assoc' = assoc
            /\ resp' = Response("delete_team_member", 404, id, <<>>)
       ELSE /\ table' = [table EXCEPT !["team_member"] = table["team_member"] \ found]
            /\ assoc' = assoc
            /\ resp' = Response("delete_team_member", 204, id, <<>>)
    /\ UNCHANGED <<session, now, seq>>

(* ------------------------------ location ------------------------------ *)

\* POST: Location(**body), session.add, session.commit.
\* No except clause: an IntegrityError leaves the handler (500).
create_location(p) ==
    /\ seq["location"] < MaxIds
    /\ LET id == seq["location"] + 1
           c == CommitInsert("location", table["location"], NewRow(id, p))
       IN /\ seq' = [seq EXCEPT !["location"] = id]
          /\ table' = [table EXCEPT !["location"] = c.rows]
          /\ resp' = IF c.ok
                     THEN Response("create_location", 201, id, <<id>>)
                     ELSE Response("create_location", 500, 0, <<>>)
    /\ UNCHANGED <<session, now, assoc>>

\* GET: select(...).order_by(created_at.desc()).
get_locations ==
    /\ \E s \in OrderByCreatedDesc(table["location"]) :
          resp' = Response("get_locations", 200, 0, s)
    /\ UNCHANGED <<session, now, table, seq, assoc>>

\* PUT: session.get, 404 if None; setattr for each item of the dumped
\* body; session.commit.  No except clause.
update_location(id, p) ==
    /\ LET found == Get(table["location"], id) IN
       IF found = {}
       THEN /\ table' = table
            /\ resp' = Response("update_location", 404, id, <<>>)
       ELSE LET old == CHOOSE x \in found : TRUE
                new == SetAttrs(old, ExcludeNone(p))
                c == CommitUpdate("location", table["location"], old, new)
            IN /\ table' = [table EXCEPT !["location"] = c.rows]
               /\ resp' = Response("update_location", IF c.ok THEN 200 ELSE 500,
                                   id, <<>>)
    /\ UNCHANGED <<session, now, seq, assoc>>

\* DELETE: session.get, 404 if None; session.delete, session.commit.
delete_location(id) ==
    /\ LET found == Get(table["location"], id) IN
       IF found = {}
       THEN /\ table' = table
            /\ assoc' = assoc
            /\ resp' = Response("delete_location", 404, id, <<>>)
       ELSE /\ table' = [table EXCEPT !["location"] = table["location"] \ found]
            /\ assoc' = assoc \ OwnedAssociations("location_id", id)
            /\ resp' = ResponseOn("delete_location", 204, id,
                                  {a.service_id : a \in OwnedAssociations("location_id", id)},
                                  <<>>)
    /\ UNCHANGED <<session, now, seq>>

(* ------------------------------ service ------------------------------ *)

\* POST: Service(**body), session.add, session.commit.
\* No except clause: an IntegrityError leaves the handler (500).
create_service(p) ==
    /\ seq["service"] < MaxIds
    /\ LET id == seq["service"] + 1
           c == CommitInsert("service", table["service"], NewRow(id, p))
       IN /\ seq' = [seq EXCEPT !["service"] = id]
          /\ table' = [table EXCEPT !["service"] = c.rows]
          /\ resp' = IF c.ok
                     THEN Response("create_service", 201, id, <<id>>)
                     ELSE Response("create_service", 500, 0, <<>>)
    /\ UNCHANGED <<session, now, assoc>>

\* GET: select(...).order_by(created_at.desc()).
get_services ==
    /\ \E s \in OrderByCreatedDesc(table["service"]) :
          resp' = Response("get_services", 200, 0, s)
    /\ UNCHANGED <<session, now, table, seq, assoc>>

\* PUT: session.get, 404 if None; setattr for each item of the dumped
\* body; session.commit.  No except clause.
update_service(id, p) ==
    /\ LET found == Get(table["service"], id) IN
       IF found = {}
       THEN /\ table' = table
            /\ resp' = Response("update_service", 404, id, <<>>)
       ELSE LET old == CHOOSE x \in found : TRUE
                new == SetAttrs(old, ExcludeNone(p))
                c == CommitUpdate("service", table["service"], old, new)
            IN /\ table' = [table EXCEPT !["service"] = c.rows]
               /\ resp' = Response("update_service", IF c.ok THEN 200 ELSE 500,
                                   id, <<>>)
    /\ UNCHANGED <<session, now, seq, assoc>>

\* DELETE: session.get, 404 if None; session.delete, session.commit.
delete_service(id) ==
    /\ LET found == Get(table["service"], id) IN
       IF found = {}
       THEN /\ table' = table
            /\ assoc' = assoc
            /\ resp' = Response("delete_service", 404, id, <<>>)
       ELSE /\ table' = [table EXCEPT !["service"] = table["service"] \ found]
            /\ assoc' = assoc \ OwnedAssociations("service_id", id)
            /\ resp' = ResponseOn("delete_service", 204, id,
                                  {a.location_id : a \in OwnedAssociations("service_id", id)},
                                  <<>>)
    /\ UNCHANGED <<session, now, seq>>

(* ------------------------------ promotion ------------------------------ *)

\* POST: Promotions(**body), session.add, session.commit.
\* No except clause: an IntegrityError leaves the handler (500).
create_promotion(p) ==
    /\ seq["promotion"] < MaxIds
    /\ LET id == seq["promotion"] + 1
           c == CommitInsert("promotion", table["promotion"], NewRow(id, p))
       IN /\ seq' = [seq EXCEPT !["promotion"] = id]
          /\ table' = [table EXCEPT !["promotion"] = c.rows]
          /\ resp' = IF c.ok
                     THEN Response("create_promotion", 201, id, <<id>>)
                     ELSE Response("create_promotion", 500, 0, <<>>)
    /\ UNCHANGED <<session, now, assoc>>

\* GET: select(...).order_by(created_at.desc()).
get_promotions ==
    /\ \E s \in OrderByCreatedDesc(table["promotion"]) :
          resp' = Response("get_promotions", 200, 0, s)
    /\ UNCHANGED <<session, now, table, seq, assoc>>

\* PUT: session.get, 404 if None; setattr for each item of the dumped
\* body; session.commit.  No except clause.
update_promotion(id, p) ==
    /\ LET found == Get(table["promotion"], id) IN
       IF found = {}
       THEN /\ table' = table
            /\ resp' = Response("update_promotion", 404, id, <<>>)
       ELSE LET old == CHOOSE x \in found : TRUE
                new == SetAttrs(old, ExcludeUnset(AssignExpire(p)))
                c == CommitUpdate("promotion", table["promotion"], old, new)
            IN /\ table' = [table EXCEPT !["promotion"] = c.rows]
               /\ resp' = Response("update_promotion", IF c.ok THEN 200 ELSE 500,
                                   id, <<>>)
    /\ UNCHANGED <<session, now, seq, assoc>>

\* DELETE: session.get, 404 if None; session.delete, session.commit.
delete_promotion(id) ==
    /\ LET found == Get(table["promotion"], id) IN
       IF found = {}
       THEN /\ table' = table
            /\ assoc' = assoc
            /\ resp' = Response("delete_promotion", 404, id, <<>>)
       ELSE /\ table' = [table EXCEPT !["promotion"] = table["promotion"] \ found]
            /\ assoc' = assoc
            /\ resp' = Response("delete_promotion", 204, id, <<>>)
    /\ UNCHANGED <<session, now, seq>>

(* ------------------------------ offer ------------------------------ *)

\* POST: Offers(**body), session.add, session.commit.
\* No except clause: an IntegrityError leaves the handler (500).
create_offer(p) ==
    /\ seq["offer"] < MaxIds
    /\ LET id == seq["offer"] + 1
           c == CommitInsert("offer", table["offer"], NewRow(id, p))
       IN /\ seq' = [seq EXCEPT !["offer"] = id]
          /\ table' = [table EXCEPT !["offer"] = c.rows]
          /\ resp' = IF c.ok
                     THEN Response("create_offer", 201, id, <<id>>)
                     ELSE Response("create_offer", 500, 0, <<>>)
    /\ UNCHANGED <<session, now, assoc>>

\* GET: select(...).order_by(created_at.desc()).
get_offers ==
    /\ \E s \in OrderByCreatedDesc(table["offer"]) :
          resp' = Response("get_offers", 200, 0, s)
    /\ UNCHANGED <<session, now, table, seq, assoc>>

\* PUT: session.get, 404 if None; setattr for each item of the dumped
\* body; session.commit.  No except clause.
update_offer(id, p) ==
    /\ LET found == Get(table["offer"], id) IN
       IF found = {}
       THEN /\ table' = table
            /\ resp' = Response("update_offer", 404, id, <<>>)
       ELSE LET old == CHOOSE x \in found : TRUE
                new == SetAttrs(old, ExcludeUnset(p))
                c == CommitUpdate("offer", table["offer"], old, new)
            IN /\ table' = [table EXCEPT !["offer"] = c.rows]
               /\ resp' = Response("update_offer", IF c.ok THEN 200 ELSE 500,
                                   id, <<>>)
    /\ UNCHANGED <<session, now, seq, assoc>>

\* DELETE: session.get, 404 if None; session.delete, session.commit.
delete_offer(id) ==
    /\ LET found == Get(table["offer"], id) IN
       IF found = {}
       THEN /\ table' = table
            /\ assoc' = assoc
            /\ resp' = Response("delete_offer", 404, id, <<>>)
       ELSE /\ table' = [table EXCEPT !["offer"] = table["offer"] \ found]
            /\ assoc' = assoc
            /\ resp' = Response("delete_offer", 204, id, <<>>)
    /\ UNCHANGED <<session, now, seq>>

(* ----------------------------- other_info ----------------------------- *)

\* POST: OtherInfo(**body), session.add, session.commit.
\* IntegrityError is caught: 409.  The stored row is returned as OtherInfoOut.
create_other_info(p) ==
    /\ seq["other_info"] < MaxIds
    /\ LET id == seq["other_info"] + 1
           c == CommitInsert("other_info", table["other_info"], NewRow(id, p))
       IN /\ seq' = [seq EXCEPT !["other_info"] = id]
          /\ table' = [table EXCEPT !["other_info"] = c.rows]
          /\ resp' = IF c.ok
                     THEN [Response("create_other_info", 201, id, <<id>>)
                              EXCEPT !.row = Get(c.rows, id)]
                     ELSE Response("create_other_info", 409, 0, <<>>)
    /\ UNCHANGED <<session, now, assoc>>

\* GET: select(...).order_by(created_at.desc()).
get_all_other_info ==
    /\ \E s \in OrderByCreatedDesc(table["other_info"]) :
          resp' = Response("get_all_other_info", 200, 0, s)
    /\ UNCHANGED <<session, now, table, seq, assoc>>

\* PUT by name: select where name == info_name, 404 if None; setattr for
\* each item of model_dump(exclude_none=True); commit, rollback and 409 on
\* IntegrityError.  The stored row is returned as OtherInfoOut.
update_other_info(name, p) ==
    /\ LET found == GetByName(table["other_info"], name) IN
       IF found = {}
       THEN /\ table' = table
            /\ resp' = ResponseByName("update_other_info", 404, name)
       ELSE LET old == CHOOSE x \in found : TRUE
                new == SetAttrs(old, ExcludeNone(p))
                c == CommitUpdate("other_info", table["other_info"], old, new)
            IN /\ table' = [table EXCEPT !["other_info"] = c.rows]
               /\ resp' = IF c.ok
                          THEN [ResponseByName("update_other_info", 200, name)
                                   EXCEPT !.row = Get(c.rows, old.id)]
                          ELSE ResponseByName("update_other_info", 409, name)
    /\ UNCHANGED <<session, now, seq, assoc>>

\* DELETE by name: select where name == info_name, 404 if None.
delete_other_info(name) ==
    /\ LET found == GetByName(table["other_info"], name) IN
       IF found = {}
       THEN /\ table' = table
            /\ resp' = ResponseByName("delete_other_info", 404, name)
       ELSE /\ table' = [table EXCEPT !["other_info"] =
                            table["other_info"] \ found]
            /\ resp' = ResponseByName("delete_other_info", 204, name)
    /\ UNCHANGED <<session, now, seq, assoc>>

(* ------------------------ location <-> service ------------------------ *)

\* location.services: the association proxy over service_associations, as a
\* set of service ids, read from association rows A.
Linked(A, lid) == {a.service_id : a \in {x \in A : x.location_id = lid}}

\* select(Service).where(Service.id.in_(service_ids)): ids that name no
\* Service select nothing.
ResolveServices(rows, service_ids) == {x.id : x \in {y \in rows : y.id \in service_ids}}

\* The other reading of a PATCH: the collection becomes the given services.
ServicesReplaced(linked, services) == services

\* location.services.update(services): the proxy adds each service that is
\* not in the collection yet.
ServicesAfterUpdate(linked, services) == linked \cup services

\* A removal that empties the collection.
ServicesCleared(linked, sid) == {}

\* location.services.remove(service)
ServicesAfterRemove(linked, sid) == linked \ {sid}

\* creator=lambda service_obj: LocationServiceAssociation(service=service_obj),
\* stored with the location's id and the timestamps of TimeStampMixin.
NewAssociation(lid, sid) ==
    [location_id |-> lid, service_id |-> sid,
     created_at |-> now, updated_at |-> now]

\* A column pair without a constraint accepts every row.
Unconstrained(A, row) == TRUE

\* primary_key=True on (location_id, service_id): no stored row has the pair.
PrimaryKeyOk(A, row) ==
    \A a \in A :
        ~(a.location_id = row.location_id /\ a.service_id = row.service_id)

\* ForeignKey("locations.id"), ForeignKey("services.id"): both rows exist.
ForeignKeyOk(T, row) ==
    /\ \E l \in T["location"] : l.id = row.location_id
    /\ \E x \in T["service"] : x.id = row.service_id

\* session.commit() after the collection of location lid went from linked
\* (as the session loaded it) to target: the flush INSERTs a row for each
\* service added and DELETEs the row of each one removed (delete-orphan),
\* against association rows A and tables T.  ok: the rows after the commit;
\* otherwise IntegrityError and nothing is written.
CommitAssociations(A, T, lid, linked, target) ==
    LET inserts == {NewAssociation(lid, sid) : sid \in target \ linked}
        deletes == {a \in A : a.location_id = lid
                                /\ a.service_id \in linked \ target}
    IN IF \A row \in inserts : PrimaryKeyOk(A, row) /\ ForeignKeyOk(T, row)
       THEN [ok |-> TRUE, rows |-> (A \ deletes) \cup inserts]
       ELSE [ok |-> FALSE, rows |-> A]

\* Iterating a Python set: its elements once each, in no particular order.
Enumerations(S) ==
    {s \in [1 .. Cardinality(S) -> S] :
        \A i, j \in DOMAIN s : i # j => s[i] # s[j]}

\* GET /locations/{location_id}/services
get_services_of_location(lid) ==
    /\ IF Get(table["location"], lid) = {}
       THEN resp' = Response("get_services_of_location", 404, lid, <<>>)
       ELSE \E body \in Enumerations(Linked(assoc, lid)) :
               resp' = Response("get_services_of_location", 200, lid, body)
    /\ UNCHANGED <<session, now, table, seq, assoc>>

\* PATCH /locations/{location_id}/services: session.get, 404 if None; the
\* services the ids select are added to location.services; commit, refresh,
\* and the location's services are returned.  No except clause.
update_services_of_location(lid, service_ids) ==
    /\ IF Get(table["location"], lid) = {}
       THEN /\ assoc' = assoc
            /\ resp' = ResponseOn("update_services_of_location", 404, lid,
                                  service_ids, <<>>)
       ELSE LET services == ResolveServices(table["service"], service_ids)
                linked == Linked(assoc, lid)
                c == CommitAssociations(assoc, table, lid, linked,
                                        ServicesAfterUpdate(linked, services))
            IN /\ assoc' = c.rows
               /\ IF c.ok
                  THEN \E body \in Enumerations(Linked(c.rows, lid)) :
                          resp' = ResponseOn("update_services_of_location",
                                             200, lid, service_ids, body)
                  ELSE resp' = ResponseOn("update_services_of_location",
                                          500, lid, service_ids, <<>>)
    /\ UNCHANGED <<session, now, table, seq>>

\* DELETE /locations/{location_id}/services/{service_id}: 404 if the
\* location is None, if the service is None, or if the service is not in
\* location.services; otherwise the service is removed from the collection
\* and the session commits.
delete_service_of_location(lid, sid) ==
    /\ IF \/ Get(table["location"], lid) = {}
          \/ Get(table["service"], sid) = {}
          \/ sid \notin Linked(assoc, lid)
       THEN /\ assoc' = assoc
            /\ resp' = ResponseOn("delete_service_of_location", 404, lid,
                                  {sid}, <<>>)
       ELSE LET linked == Linked(assoc, lid)
                c == CommitAssociations(assoc, table, lid, linked,
                                        ServicesAfterRemove(linked, sid))
            IN /\ assoc' = c.rows
               /\ resp' = ResponseOn("delete_service_of_location",
                                     IF c.ok THEN 204 ELSE 500, lid, {sid},
                                     <<>>)
    /\ UNCHANGED <<session, now, table, seq>>

(* --------------------------- the CRUD requests ------------------------ *)

\* The tables of two resources share no column, constraint or handler, so a
\* behaviour of the backend is an interleaving of independent behaviours, one
\* per resource.  They are explored one resource at a time: a request for r
\* is served while no other table's sequence has issued an id.
Alone(rs) == \A q \in Resources \ rs : seq[q] = 0

HeroRequests ==
    \/ \E p \in CreatePayloads["hero"] : create_hero(p)
    \/ get_heros
    \/ \E id \in Ids, p \in UpdatePayloads["hero"] : update_hero(id, p)
    \/ \E id \in Ids : delete_hero(id)

TeamMemberRequests ==
    \/ \E p \in CreatePayloads["team_member"] : create_team_member(p)
    \/ get_team_members
    \/ \E id \in Ids, p \in UpdatePayloads["team_member"] :
          update_team_member(id, p)
    \/ \E id \in Ids : delete_team_member(id)

OtherInfoRequests ==
    \/ \E p \in CreatePayloads["other_info"] : create_other_info(p)
    \/ get_all_other_info
    \/ \E name \in Strings, p \in UpdatePayloads["other_info"] :
          update_other_info(name, p)
    \/ \E name \in Strings : delete_other_info(name)

LocationRequests ==
    \/ \E p \in CreatePayloads["location"] : create_location(p)
    \/ get_locations
    \/ \E id \in Ids, p \in UpdatePayloads["location"] : update_location(id, p)
    \/ \E id \in Ids : delete_location(id)

ServiceRequests ==
    \/ \E p \in CreatePayloads["service"] : create_service(p)
    \/ get_services
    \/ \E id \in Ids, p \in UpdatePayloads["service"] : update_service(id, p)
    \/ \E id \in Ids : delete_service(id)

PromotionRequests ==
    \/ \E p \in CreatePayloads["promotion"] : create_promotion(p)
    \/ get_promotions
    \/ \E id \in Ids, p \in UpdatePayloads["promotion"] :
          update_promotion(id, p)
    \/ \E id \in Ids : delete_promotion(id)

OfferRequests ==
    \/ \E p \in CreatePayloads["offer"] : create_offer(p)
    \/ get_offers
    \/ \E id \in Ids, p \in UpdatePayloads["offer"] : update_offer(id, p)
    \/ \E id \in Ids : delete_offer(id)

Next ==
    \/ Tick
    \/ Alone({"hero"}) /\ HeroRequests
    \/ Alone({"team_member"}) /\ TeamMemberRequests
    \/ Alone({"other_info"}) /\ OtherInfoRequests
    \/ Alone({"location"}) /\ LocationRequests
    \/ Alone({"service"}) /\ ServiceRequests
    \/ Alone({"promotion"}) /\ PromotionRequests
    \/ Alone({"offer"}) /\ OfferRequests

Spec == Init /\ [][Next]_vars

(* ---------------------- the association requests ---------------------- *)

\* One value per column but the heading (or name): the bodies of the POST
\* requests explored where the other columns play no part.
SampleCreates ==
    [r \in Resources |->
        {[f \in Fields(r) |->
             IF f \in {"heading", "name"} THEN h
             ELSE CHOOSE v \in In(r, f) : TRUE] : h \in Strings}]

\* Locations, services and their associations, within one reading of the
\* clock: the creates and deletes of both tables and the three association
\* routes.
NextAssoc ==
    \/ /\ seq["location"] < MaxLocations
       /\ create_location(CHOOSE p \in SampleCreates["location"] : TRUE)
    \/ \E p \in SampleCreates["service"] : create_service(p)
    \/ \E id \in LocationIds : delete_location(id)
    \/ \E id \in Ids : delete_service(id)
    \/ \E lid \in LocationIds : get_services_of_location(lid)
    \/ \E lid \in LocationIds, service_ids \in SUBSET Ids :
          update_services_of_location(lid, service_ids)
    \/ \E lid \in LocationIds, sid \in Ids :
          delete_service_of_location(lid, sid)

SpecAssoc == Init /\ [][NextAssoc]_vars

(* --------------------------- several workers -------------------------- *)

\* Each worker process serves one request at a time; requests of different
\* workers interleave at the database.  A handler's reads fill its session;
\* its writes reach the database when session.commit() flushes them, and the
\* database checks its constraints against the rows committed by then.

\* What a session holds between its reads and its commit: the request (op,
\* key, ids) and the collection it loaded.
Loaded(op, key, ids, loaded) ==
    [op |-> op, key |-> key, ids |-> ids, loaded |-> loaded, new |-> {}]

\* What a session holds between session.add(obj) and its commit: the
\* pending object, built from the request body p (session.new).
Pending(op, p) ==
    [op |-> op, key |-> 0, ids |-> {}, loaded |-> {}, new |-> {p}]

\* The foreign keys of location_service_associations carry no ON DELETE:
\* a row of locations or services that an association row references
\* cannot be deleted.
NotReferenced(A, col, id) == \A a \in A : a[col] # id

\* delete_location up to session.delete(location): 404 if the row is not
\* there; otherwise the cascade loads location.service_associations.
load_delete_location(w, id) ==
    /\ session[w] = Idle
    /\ IF Get(table["location"], id) = {}
       THEN /\ resp' = Response("delete_location", 404, id, <<>>)
            /\ session' = session
       ELSE /\ resp' = resp
            /\ session' = [session EXCEPT ![w] =
                  Loaded("delete_location", id, {},
                         {a.service_id : a \in OwnedAssociations("location_id", id)})]
    /\ UNCHANGED <<now, table, seq, assoc>>

\* session.commit() of delete_location: DELETE of the association rows the
\* session loaded (one that is gone by now only warns), then DELETE of the
\* location row, which the foreign key refuses while another association
\* row references it (IntegrityError, 500, nothing written).
commit_delete_location(w) ==
    /\ session[w].op = "delete_location"
    /\ LET id == session[w].key
           rest == {a \in assoc : ~(/\ a.location_id = id
                                    /\ a.service_id \in session[w].loaded)}
       IN IF NotReferenced(rest, "location_id", id)
          THEN /\ assoc' = rest
               /\ table' = [table EXCEPT !["location"] = {x \in @ : x.id # id}]
               /\ resp' = Response("delete_location", 204, id, <<>>)
          ELSE /\ UNCHANGED <<assoc, table>>
               /\ resp' = Response("delete_location", 500, id, <<>>)
    /\ session' = [session EXCEPT ![w] = Idle]
    /\ UNCHANGED <<now, seq>>

\* delete_service up to session.delete(service).
load_delete_service(w, id) ==
    /\ session[w] = Idle
    /\ IF Get(table["service"], id) = {}
       THEN /\ resp' = Response("delete_service", 404, id, <<>>)
            /\ session' = session
       ELSE /\ resp' = resp
            /\ session' = [session EXCEPT ![w] =
                  Loaded("delete_service", id, {},
                         {a.location_id : a \in OwnedAssociations("service_id", id)})]
    /\ UNCHANGED <<now, table, seq, assoc>>

\* session.commit() of delete_service.
commit_delete_service(w) ==
    /\ session[w].op = "delete_service"
    /\ LET id == session[w].key
           rest == {a \in assoc : ~(/\ a.service_id = id
                                    /\ a.location_id \in session[w].loaded)}
       IN IF NotReferenced(rest, "service_id", id)
          THEN /\ assoc' = rest
               /\ table' = [table EXCEPT !["service"] = {x \in @ : x.id # id}]
               /\ resp' = Response("delete_service", 204, id, <<>>)
          ELSE /\ UNCHANGED <<assoc, table>>
               /\ resp' = Response("delete_service", 500, id, <<>>)
    /\ session' = [session EXCEPT ![w] = Idle]
    /\ UNCHANGED <<now, seq>>

\* update_services_of_location up to location.services.update(services):
\* the session holds the services the ids selected and the collection as it
\* loaded it.
load_update_services_of_location(w, lid, service_ids) ==
    /\ session[w] = Idle
    /\ IF Get(table["location"], lid) = {}
       THEN /\ resp' = Response("update_services_of_location", 404, lid, <<>>)
            /\ session' = session
       ELSE /\ resp' = resp
            /\ session' = [session EXCEPT ![w] =
                  Loaded("update_services_of_location", lid,
                         ResolveServices(table["service"], service_ids),
                         Linked(assoc, lid))]
    /\ UNCHANGED <<now, table, seq, assoc>>

\* session.commit() of update_services_of_location: an INSERT for each
\* service the session found missing from the collection it loaded.
commit_update_services_of_location(w) ==
    /\ session[w].op = "update_services_of_location"
    /\ LET lid == session[w].key
           linked == session[w].loaded
           c == CommitAssociations(assoc, table, lid, linked,
                                   ServicesAfterUpdate(linked, session[w].ids))
       IN /\ assoc' = c.rows
          /\ resp' = Response("update_services_of_location",
                              IF c.ok THEN 200 ELSE 500, lid, <<>>)
    /\ session' = [session EXCEPT ![w] = Idle]
    /\ UNCHANGED <<now, table, seq>>

\* delete_service_of_location up to location.services.remove(service).
load_delete_service_of_location(w, lid, sid) ==
    /\ session[w] = Idle
    /\ IF \/ Get(table["location"], lid) = {}
          \/ Get(table["service"], sid) = {}
          \/ sid \notin Linked(assoc, lid)
       THEN /\ resp' = Response("delete_service_of_location", 404, lid, <<>>)
            /\ session' = session
       ELSE /\ resp' = resp
            /\ session' = [session EXCEPT ![w] =
                  Loaded("delete_service_of_location", lid, {sid},
                         Linked(assoc, lid))]
    /\ UNCHANGED <<now, table, seq, assoc>>

\* session.commit() of delete_service_of_location: DELETE of the orphaned
\* association row.
commit_delete_service_of_location(w) ==
    /\ session[w].op = "delete_service_of_location"
    /\ LET lid == session[w].key
           linked == session[w].loaded
           sid == CHOOSE x \in session[w].ids : TRUE
           c == CommitAssociations(assoc, table, lid, linked,
                                   ServicesAfterRemove(linked, sid))
       IN /\ assoc' = c.rows
          /\ resp' = Response("delete_service_of_location",
                              IF c.ok THEN 204 ELSE 500, lid, <<>>)
    /\ session' = [session EXCEPT ![w] = Idle]
    /\ UNCHANGED <<now, table, seq>>

\* A PUT body that supplies heading "B" and nothing else.
Rename(r) == [Blank(r) EXCEPT !["heading"] = "B"]

\* Some worker is between requests and can serve a new one.
Free == \E w \in Workers : session[w] = Idle

\* Two workers on locations, services and their associations.  The routes
\* that write the association table or delete a row it references take two
\* steps, between which the other worker's steps fall; a create or a PUT
\* writes one row of its own table and is one step.  One location and one
\* service exist at a time (the service by its unique heading): what grows
\* with the bounds is the rows created and deleted over time, whose ids the
\* open sessions may still hold.
NextWorkers ==
    \/ Tick
    \/ /\ Free
       /\ seq["location"] < MaxLocations
       /\ table["location"] = {}
       /\ create_location(CHOOSE p \in SampleCreates["location"] : TRUE)
    \/ /\ Free
       /\ seq["service"] < MaxServices
       /\ create_service(CHOOSE p \in SampleCreates["service"] : TRUE)
    \/ Free /\ \E id \in LocationIds : update_location(id, Rename("location"))
    \/ \E w \in Workers, id \in LocationIds : load_delete_location(w, id)
    \/ \E w \in Workers : commit_delete_location(w)
    \/ \E w \in Workers, id \in ServiceIds : load_delete_service(w, id)
    \/ \E w \in Workers : commit_delete_service(w)
    \/ \E w \in Workers, lid \in LocationIds, service_ids \in SUBSET ServiceIds :
          load_update_services_of_location(w, lid, service_ids)
    \/ \E w \in Workers : commit_update_services_of_location(w)
    \/ \E w \in Workers, lid \in LocationIds, sid \in ServiceIds :
          load_delete_service_of_location(w, lid, sid)
    \/ \E w \in Workers : commit_delete_service_of_location(w)

SpecWorkers == Init /\ [][NextWorkers]_vars

(* ----------------------- workers racing to create --------------------- *)

\* The status a create of resource r answers when its commit raises
\* IntegrityError: 409 where the handler catches it, 500 where it does not.
OnIntegrityError(r) ==
    IF r \in {"team_member", "other_info"} THEN 409 ELSE 500

\* A POST up to session.add: the body is validated and the object built;
\* nothing is read from the database.
load_create(w, r, p) ==
    /\ session[w] = Idle
    /\ session' = [session EXCEPT ![w] = Pending("create_" \o r, p)]
    /\ UNCHANGED <<now, table, seq, assoc, resp>>

\* session.commit() of a POST: the INSERT takes the next id of the sequence
\* and the timestamps of the flush, and the database checks the row against
\* the rows committed by then.
commit_create(w, r) ==
    /\ session[w].op = "create_" \o r
    /\ seq[r] < MaxIds
    /\ LET id == seq[r] + 1
           p == CHOOSE q \in session[w].new : TRUE
           c == CommitInsert(r, table[r], NewRow(id, p))
       IN /\ seq' = [seq EXCEPT ![r] = id]
          /\ table' = [table EXCEPT ![r] = c.rows]
          /\ resp' = IF c.ok
                     THEN Response("create_" \o r, 201, id, <<id>>)
                     ELSE Response("create_" \o r, OnIntegrityError(r), 0, <<>>)
    /\ session' = [session EXCEPT ![w] = Idle]
    /\ UNCHANGED <<now, assoc>>

\* Two workers serving POSTs of the resources with a unique column, one
\* resource at a time, and DELETEs that free a value again.
NextCreate ==
    \/ \E w \in Workers, p \in SampleCreates["team_member"] :
          Alone({"team_member"}) /\ load_create(w, "team_member", p)
    \/ \E w \in Workers : commit_create(w, "team_member")
    \/ \E w \in Workers, p \in SampleCreates["service"] :
          Alone({"service"}) /\ load_create(w, "service", p)
    \/ \E w \in Workers : commit_create(w, "service")
    \/ \E w \in Workers, p \in SampleCreates["other_info"] :
          Alone({"other_info"}) /\ load_create(w, "other_info", p)
    \/ \E w \in Workers : commit_create(w, "other_info")
    \/ Free /\ \E id \in Ids : delete_team_member(id)
    \/ Free /\ \E id \in Ids : delete_service(id)
    \/ Free /\ \E name \in Strings : delete_other_info(name)

SpecCreate == Init /\ [][NextCreate]_vars

(* ------------------------------ requests ------------------------------ *)

\* POST /{resource}/ with body p.
Post(r, p) ==
    CASE r = "hero" -> create_hero(p)
      [] r = "team_member" -> create_team_member(p)
      [] r = "other_info" -> create_other_info(p)
      [] r = "location" -> create_location(p)
      [] r = "service" -> create_service(p)
      [] r = "promotion" -> create_promotion(p)
      [] r = "offer" -> create_offer(p)

\* PUT /{resource}/{key} with body p.
Put(r, key, p) ==
    CASE r = "hero" -> update_hero(key, p)
      [] r = "team_member" -> update_team_member(key, p)
      [] r = "other_info" -> update_other_info(key, p)
      [] r = "location" -> update_location(key, p)
      [] r = "service" -> update_service(key, p)
      [] r = "promotion" -> update_promotion(key, p)
      [] r = "offer" -> update_offer(key, p)

\* The path parameter of a resource's routes: a name for other_info, an id
\* for the others; and the row it addresses.
Keys(r) == IF r = "other_info" THEN Strings ELSE Ids

Lookup(r, key) ==
    IF r = "other_info" THEN GetByName(table[r], key) ELSE Get(table[r], key)

UniqueResources == {r \in Resources : UniqueCols(r) # {}}

\* The step is the serving of a POST (a PUT) of resource r: the request the
\* response in resp' answers.
PostServed(r) == resp'.op = "create_" \o r

PutServed(r) == resp'.op = "update_" \o r

PutKey(r) == IF r = "other_info" THEN resp'.name ELSE resp'.key

(* -------------------------- the list requests ------------------------- *)

\* The route that lists resource r.
ListOp(r) ==
    CASE r = "hero" -> "get_heros"
      [] r = "team_member" -> "get_team_members"
      [] r = "other_info" -> "get_all_other_info"
      [] r = "location" -> "get_locations"
      [] r = "service" -> "get_services"
      [] r = "promotion" -> "get_promotions"
      [] r = "offer" -> "get_offers"

\* Creates, deletes and lists of each resource as the clock advances, one
\* resource at a time.
NextList ==
    \/ Tick
    \/ /\ Alone({"hero"})
       /\ \/ \E p \in SampleCreates["hero"] : create_hero(p)
          \/ get_heros
          \/ \E id \in Ids : delete_hero(id)
    \/ /\ Alone({"team_member"})
       /\ \/ \E p \in SampleCreates["team_member"] : create_team_member(p)
          \/ get_team_members
          \/ \E id \in Ids : delete_team_member(id)
    \/ /\ Alone({"other_info"})
       /\ \/ \E p \in SampleCreates["other_info"] : create_other_info(p)
          \/ get_all_other_info
          \/ \E name \in Strings : delete_other_info(name)
    \/ /\ Alone({"location"})
       /\ \/ \E p \in SampleCreates["location"] : create_location(p)
          \/ get_locations
          \/ \E id \in Ids : delete_location(id)
    \/ /\ Alone({"service"})
       /\ \/ \E p \in SampleCreates["service"] : create_service(p)
          \/ get_services
          \/ \E id \in Ids : delete_service(id)
    \/ /\ Alone({"promotion"})
       /\ \/ \E p \in SampleCreates["promotion"] : create_promotion(p)
          \/ get_promotions
          \/ \E id \in Ids : delete_promotion(id)
    \/ /\ Alone({"offer"})
       /\ \/ \E p \in SampleCreates["offer"] : create_offer(p)
          \/ get_offers
          \/ \E id \in Ids : delete_offer(id)

SpecList == Init /\ [][NextList]_vars

\* The step is the serving of the list route of resource r.
ListServed(r) == resp'.op = ListOp(r)

\* created_at of the row of rows with the id.
CreatedAt(rows, id) == (CHOOSE x \in rows : x.id = id).created_at

(* ----------------------- workers racing to update --------------------- *)

\* The dict a PUT handler of r sets on the loaded object, attribute by
\* attribute.
Dumped(r, p) ==
    CASE r = "promotion" -> ExcludeUnset(AssignExpire(p))
      [] r = "offer" -> ExcludeUnset(p)
      [] OTHER -> ExcludeNone(p)

\* The status a PUT of resource r answers when its commit raises
\* IntegrityError: 409 where the handler catches it, 500 where it does not.
OnUpdateIntegrityError(r) ==
    IF r \in {"team_member", "other_info"} THEN 409 ELSE 500

\* A PUT up to the setattr loop: session.get, 404 if None; the session holds
\* the row as it loaded it and the body whose dump it set on the object.
load_update(w, r, id, p) ==
    /\ session[w] = Idle
    /\ IF Get(table[r], id) = {}
       THEN /\ resp' = Response("update_" \o r, 404, id, <<>>)
            /\ session' = session
       ELSE /\ resp' = resp
            /\ session' = [session EXCEPT ![w] =
                  [op |-> "update_" \o r, key |-> id, ids |-> {},
                   loaded |-> Get(table[r], id), new |-> {p}]]
    /\ UNCHANGED <<now, table, seq, assoc>>

\* session.commit() and session.refresh() of a PUT.  The flush UPDATEs the
\* columns whose value differs from the loaded one, and updated_at, WHERE id
\* is the row's id: the other columns keep what is committed by then.  No
\* changed column: no UPDATE.  A row that is gone by then: StaleDataError
\* from the flush or InvalidRequestError from the refresh (500).
commit_update(w, r) ==
    /\ session[w].op = "update_" \o r
    /\ LET id == session[w].key
           old == CHOOSE x \in session[w].loaded : TRUE
           d == Dumped(r, CHOOSE q \in session[w].new : TRUE)
           changed == {f \in DOMAIN d : d[f] # old.cols[f]}
           cur == Get(table[r], id)
       IN IF cur = {}
          THEN /\ table' = table
               /\ resp' = Response("update_" \o r, 500, id, <<>>)
          ELSE IF changed = {}
          THEN /\ table' = table
               /\ resp' = Response("update_" \o r, 200, id, <<>>)
          ELSE LET x == CHOOSE y \in cur : TRUE
                   new == Touched([x EXCEPT !.cols =
                              [f \in DOMAIN x.cols |->
                                  IF f \in changed THEN d[f] ELSE x.cols[f]]])
               IN IF NotNullOk(r, new) /\ UniqueOk(r, table[r], new)
                  THEN /\ table' = [table EXCEPT ![r] = (@ \ cur) \cup {new}]
                       /\ resp' = Response("update_" \o r, 200, id, <<>>)
                  ELSE /\ table' = table
                       /\ resp' = Response("update_" \o r,
                                           OnUpdateIntegrityError(r), id, <<>>)
    /\ session' = [session EXCEPT ![w] = Idle]
    /\ UNCHANGED <<now, seq, assoc>>

\* The resources whose PUT requests are explored side by side, and the field
\* each worker's requests supply: the two workers write disjoint fields.
UpdateResources == {"hero", "team_member", "promotion"}

PutField(w, r) ==
    IF w = "w1" THEN "heading"
    ELSE CASE r = "promotion" -> "expire"
           [] r = "team_member" -> "role"
           [] OTHER -> "description"

PutBodies(w, r) ==
    {[Blank(r) EXCEPT ![PutField(w, r)] = v] : v \in Domain(r, PutField(w, r))}

\* One row of one resource, and two workers serving PUT requests on it.
NextUpdate ==
    \/ \E r \in UpdateResources : \E p \in SampleCreates[r] :
          Alone({r}) /\ Free /\ table[r] = {} /\ Post(r, p)
    \/ \E w \in Workers, r \in UpdateResources, id \in Ids :
          \E p \in PutBodies(w, r) : load_update(w, r, id, p)
    \/ \E w \in Workers, r \in UpdateResources : commit_update(w, r)

SpecUpdate == Init /\ [][NextUpdate]_vars

(* ----------------------- workers racing to delete --------------------- *)

\* A flush whose DELETE matches no row raises StaleDataError.
StaleDeleteRaises(matched) == IF matched = {} THEN 500 ELSE 204

\* The status of a DELETE request whose flush matched the rows given: the
\* mappers carry no version counter, so a DELETE that matches no row (the
\* row was deleted since it was loaded) only warns and the commit succeeds.
DeleteStatus(matched) == 204

\* A DELETE by id up to session.delete(obj): session.get, 404 if None.
load_delete(w, r, id) ==
    /\ session[w] = Idle
    /\ IF Get(table[r], id) = {}
       THEN /\ resp' = Response("delete_" \o r, 404, id, <<>>)
            /\ session' = session
       ELSE /\ resp' = resp
            /\ session' = [session EXCEPT ![w] =
                              Loaded("delete_" \o r, id, {}, {})]
    /\ UNCHANGED <<now, table, seq, assoc>>

\* session.commit() of a DELETE by id: DELETE ... WHERE id = the row's id.
commit_delete(w, r) ==
    /\ session[w].op = "delete_" \o r
    /\ LET id == session[w].key IN
          /\ table' = [table EXCEPT ![r] = {x \in @ : x.id # id}]
          /\ resp' = Response("delete_" \o r, DeleteStatus(Get(table[r], id)),
                              id, <<>>)
    /\ session' = [session EXCEPT ![w] = Idle]
    /\ UNCHANGED <<now, seq, assoc>>

\* No request is being served.
AllIdle == \A w \in Workers : session[w] = Idle

\* The resources whose DELETE requests are explored side by side.
DeleteResources == {"hero", "location", "service"}

\* Two workers serving DELETE requests: heros, and locations and services
\* with the associations their deletes cascade to.  Rows are created and
\* linked between the races, while no request is being served.
NextDelete ==
    \/ \E p \in SampleCreates["hero"] :
          AllIdle /\ Alone({"hero"}) /\ create_hero(p)
    \/ \E w \in Workers, id \in Ids : load_delete(w, "hero", id)
    \/ \E w \in Workers : commit_delete(w, "hero")
    \/ /\ AllIdle /\ Alone({"location", "service"})
       /\ seq["location"] < MaxLocations
       /\ create_location(CHOOSE p \in SampleCreates["location"] : TRUE)
    \/ /\ AllIdle /\ Alone({"location", "service"})
       /\ seq["service"] < MaxServices
       /\ create_service(CHOOSE p \in SampleCreates["service"] : TRUE)
    \/ \E lid \in LocationIds, service_ids \in SUBSET ServiceIds :
          AllIdle /\ update_services_of_location(lid, service_ids)
    \/ \E w \in Workers, id \in LocationIds : load_delete_location(w, id)
    \/ \E w \in Workers : commit_delete_location(w)
    \/ \E w \in Workers, id \in ServiceIds : load_delete_service(w, id)
    \/ \E w \in Workers : commit_delete_service(w)

SpecDelete == Init /\ [][NextDelete]_vars

(* ------------------------- other_info by name ------------------------- *)

\* The names other_info rows are given, and the bodies of the requests
\* that write them.
InfoNames == {"tiktok", "instagram"}

InfoCreates == [name : InfoNames, value : Strings \cup {NULL}]

InfoUpdates ==
    {Blank("other_info")} \cup
    {[Blank("other_info") EXCEPT !["name"] = n] : n \in InfoNames} \cup
    {[Blank("other_info") EXCEPT !["value"] = v] : v \in Strings \cup {NULL}}

\* GET by name: select where name == info_name, 404 if None; the row is
\* returned as OtherInfoOut.
get_other_info(name) ==
    /\ LET found == GetByName(table["other_info"], name) IN
       IF found = {}
       THEN resp' = ResponseByName("get_other_info", 404, name)
       ELSE resp' = [ResponseByName("get_other_info", 200, name)
                        EXCEPT !.row = {CHOOSE x \in found : TRUE}]
    /\ UNCHANGED <<session, now, table, seq, assoc>>

\* The five routes of other_info.
NextOtherInfo ==
    \/ \E p \in InfoCreates : create_other_info(p)
    \/ get_all_other_info
    \/ \E name \in InfoNames : get_other_info(name)
    \/ \E name \in InfoNames, p \in InfoUpdates : update_other_info(name, p)
    \/ \E name \in InfoNames : delete_other_info(name)

SpecOtherInfo == Init /\ [][NextOtherInfo]_vars

(* -------------------------- string validation ------------------------- *)

\* The columns of r that the request models declare as str.
StrFields(r) ==
    Fields(r) \ (IF r = "service" THEN {"featured"}
                 ELSE IF r = "promotion" THEN {"expire"} ELSE {})

\* Runs of whitespace around a string, and the strings that start and end
\* with a character that is not whitespace (or are empty).
Whitespace == {"", " "}

Cores == Strings \cup {""}

\* The strings a client sends for a str field.
RawStrings == {l \o c \o t : l \in Whitespace, c \in Cores, t \in Whitespace}

\* str.strip(): the string without its leading and trailing whitespace.
Strip(s) == CHOOSE c \in Cores : \E l, t \in Whitespace : s = l \o c \o t

\* model_config of the *In and *Update models of r, merged with the config
\* of the base class: HeroBase, TeamMemberBase, OtherInfoBase and
\* OtherInfoUpdate set both keys, LocationBase sets str_strip_whitespace and
\* LocationIn and LocationUpdate add str_min_length; the models of services,
\* promotions and offers set no config.
StrStripWhitespace(r) ==
    r \in {"hero", "team_member", "other_info", "location"}

StrMinLength(r) ==
    IF r \in {"hero", "team_member", "other_info", "location"} THEN 1 ELSE 0

\* Validation of a body by the request model: each str value is stripped
\* where the config asks for it, then checked against the minimum length.
Normalized(r, p) ==
    [f \in DOMAIN p |->
        IF f \in StrFields(r) /\ p[f] \notin {NULL, UNSET} /\ StrStripWhitespace(r)
        THEN Strip(p[f])
        ELSE p[f]]

Valid(r, p) ==
    \A f \in StrFields(r) :
        p[f] \notin {NULL, UNSET} => Len(p[f]) >= StrMinLength(r)

\* The str fields explored with raw strings: the heading, standing for the
\* required str fields of its model, and both fields of other_info, whose
\* value is the one optional str field under str_min_length.
RawFields(r) == IF r = "other_info" THEN {"name", "value"} ELSE {"heading"}

\* The bodies sent: one str field holds any raw string, the other fields a
\* value of their type (create) or nothing (update).
RawCreates ==
    [r \in Resources |->
        {[(CHOOSE q \in CreatePayloads[r] : TRUE) EXCEPT ![f] = s] :
            f \in RawFields(r), s \in RawStrings}]

RawUpdates ==
    [r \in Resources |->
        {[Blank(r) EXCEPT ![f] = s] : f \in RawFields(r), s \in RawStrings}]

\* POST /{resource}/ with the body as sent: a body the request model rejects
\* is answered 422 and the handler is not called.
PostRequest(r, raw) ==
    IF Valid(r, Normalized(r, raw))
    THEN Post(r, Normalized(r, raw))
    ELSE /\ resp' = Response("create_" \o r, 422, 0, <<>>)
         /\ UNCHANGED <<now, table, seq, assoc, session>>

\* PUT /{resource}/{key} with the body as sent.
PutRequest(r, key, raw) ==
    IF Valid(r, Normalized(r, raw))
    THEN Put(r, key, Normalized(r, raw))
    ELSE /\ resp' = IF r = "other_info"
                    THEN ResponseByName("update_" \o r, 422, key)
                    ELSE Response("update_" \o r, 422, key, <<>>)
         /\ UNCHANGED <<now, table, seq, assoc, session>>

\* Creates and updates of each resource with raw strings in their bodies,
\* one resource at a time.
NextStrings ==
    \/ \E r \in Resources : \E raw \in RawCreates[r] :
          Alone({r}) /\ PostRequest(r, raw)
    \/ \E r \in Resources : \E key \in Keys(r) : \E raw \in RawUpdates[r] :
          Alone({r}) /\ PutRequest(r, key, raw)

SpecStrings == Init /\ [][NextStrings]_vars

(* ------------------------------- claims ------------------------------- *)

\* C1: a create request whose heading/name equals that of a stored row fails
\* with 409 and the table still holds exactly one row with that heading/name
\* (TeamMember.heading, Service.heading, OtherInfo.name).
C1_DuplicateCreateConflicts ==
    [][\A r \in UniqueResources : PostServed(r) =>
         \A f \in UniqueCols(r) : \A p \in CreatePayloads[r] :
            (Post(r, p) /\ \E x \in table[r] : x.cols[f] = p[f])
               => /\ resp'.status = 409
                  /\ Cardinality({x \in table'[r] : x.cols[f] = p[f]}) = 1]_vars

\* C2: a PUT on TeamMember, Service or OtherInfo that changes the unique
\* field to a value a different row holds fails with 409 and leaves every
\* stored row unchanged.
C2_ConflictingPutConflicts ==
    [][\A r \in UniqueResources : PutServed(r) =>
         \A f \in UniqueCols(r) : \A p \in UpdatePayloads[r] :
            (/\ Put(r, PutKey(r), p)
             /\ \E x \in Lookup(r, PutKey(r)) :
                   /\ p[f] \notin {NULL, UNSET}
                   /\ p[f] # x.cols[f]
                   /\ \E y \in table[r] : y.id # x.id /\ y.cols[f] = p[f])
               => /\ resp'.status = 409
                  /\ table' = table]_vars

\* C3: an update that supplies an explicit null for a field that allows
\* absence (OtherInfo.value, Location.google_maps_embed_url,
\* Promotion.expire) leaves the stored field null.
C3_NullClearsNullableField ==
    [][\A r \in Resources : PutServed(r) =>
         \A f \in Nullable(r) : \A p \in UpdatePayloads[r] :
            (Put(r, PutKey(r), p) /\ p[f] = NULL)
               => \A x \in Lookup(r, PutKey(r)) :
                     \E y \in table'[r] : y.id = x.id /\ y.cols[f] = NULL]_vars

\* C4: for every resource's PUT, every field omitted from the request keeps
\* its stored value, nullable fields included.
C4_OmittedFieldsKept ==
    [][\A r \in Resources : PutServed(r) =>
         \A f \in Fields(r) : \A p \in UpdatePayloads[r] :
            (Put(r, PutKey(r), p) /\ p[f] = UNSET)
               => \A x \in Lookup(r, PutKey(r)) :
                     \E y \in table'[r] :
                        y.id = x.id /\ y.cols[f] = x.cols[f]]_vars

\* C5: after every successful update (also one whose body changes no stored
\* field) the entity's updated_at is strictly greater than before, and never
\* earlier than its created_at.
C5_UpdatedAtRefreshed ==
    [][\A r \in Resources : PutServed(r) =>
         \A p \in UpdatePayloads[r] :
            (Put(r, PutKey(r), p) /\ resp'.status = 200)
               => \A x \in Lookup(r, PutKey(r)) :
                     \E y \in table'[r] :
                        /\ y.id = x.id
                        /\ y.updated_at > x.updated_at
                        /\ y.updated_at >= y.created_at]_vars

\* C6: a bulk-add on an existing location answers 200 and leaves the
\* location linked to exactly its previous services together with the given
\* ids that name an existing Service; ids naming no Service are ignored, no
\* previous link is removed, and nothing else in the store changes.
C6_BulkAddLinksUnion ==
    [][(/\ resp'.op = "update_services_of_location"
        /\ \E l \in table["location"] : l.id = resp'.key)
          => /\ resp'.status = 200
             /\ Linked(assoc', resp'.key)
                   = Linked(assoc, resp'.key)
                        \cup {sid \in resp'.ids :
                                 \E x \in table["service"] : x.id = sid}
             /\ assoc \subseteq assoc'
             /\ {a \in assoc' : a.location_id # resp'.key}
                   = {a \in assoc : a.location_id # resp'.key}
             /\ table' = table]_vars

\* A bulk-add answered 200 that named an id of no Service and a service
\* that it linked, on a location that keeps a link the request did not name.
C6_Witness ==
    /\ resp.op = "update_services_of_location"
    /\ resp.status = 200
    /\ \E sid \in resp.ids : \A x \in table["service"] : x.id # sid
    /\ \E sid \in resp.ids : sid \in Linked(assoc, resp.key)
    /\ \E sid \in Linked(assoc, resp.key) : sid \notin resp.ids

\* C7: a single removal answers 404 and changes no association when the
\* location is missing, the service is missing, or the pair is not linked;
\* otherwise it answers 204 and deletes exactly that pair's association row,
\* leaving every other association and all Location and Service rows.
C7_RemovalRemovesOnePairing ==
    [][resp'.op = "delete_service_of_location"
          => LET lid == resp'.key
                 pair == {a \in assoc : /\ a.location_id = lid
                                        /\ a.service_id \in resp'.ids}
             IN /\ table' = table
                /\ IF /\ \E l \in table["location"] : l.id = lid
                      /\ \E x \in table["service"] : x.id \in resp'.ids
                      /\ pair # {}
                   THEN /\ resp'.status = 204
                        /\ Cardinality(pair) = 1
                        /\ assoc' = assoc \ pair
                   ELSE /\ resp'.status = 404
                        /\ assoc' = assoc]_vars

\* A removal answered 204 whose location is still linked to another service
\* and whose service still exists.
C7_Witness ==
    /\ resp.op = "delete_service_of_location"
    /\ resp.status = 204
    /\ \E a \in assoc : a.location_id = resp.key /\ a.service_id \notin resp.ids
    /\ \E x \in table["service"] : x.id \in resp.ids
    /\ \E l \in table["location"] : l.id = resp.key

\* C8: a DELETE of a Location answered 204 removes exactly the association
\* rows that reference the location and no Service row; a DELETE of a
\* Service answered 204 removes exactly the association rows that reference
\* the service and no Location row.
C8_DeleteCascadesToAssociations ==
    [][/\ (resp'.op = "delete_location" /\ resp'.status = 204)
            => /\ assoc' = {a \in assoc : a.location_id # resp'.key}
               /\ table'["service"] = table["service"]
       /\ (resp'.op = "delete_service" /\ resp'.status = 204)
            => /\ assoc' = {a \in assoc : a.service_id # resp'.key}
               /\ table'["location"] = table["location"]]_vars

\* A Location linked to two Services was deleted: no association row
\* references it and both Service rows exist.
C8_Witness ==
    /\ resp.op = "delete_location"
    /\ resp.status = 204
    /\ Cardinality(resp.ids) >= 2
    /\ \A sid \in resp.ids : \E x \in table["service"] : x.id = sid
    /\ \A a \in assoc : a.location_id # resp.key

\* C9: in every reachable state, however the requests of the workers
\* interleave, no two association rows carry the same (location_id,
\* service_id) pair, and every association row references a Location row
\* and a Service row that exist.
C9_AssociationsConsistent ==
    /\ \A a, b \in assoc :
          (a.location_id = b.location_id /\ a.service_id = b.service_id)
             => a = b
    /\ \A a \in assoc :
          /\ \E l \in table["location"] : l.id = a.location_id
          /\ \E x \in table["service"] : x.id = a.service_id

\* Two bulk-adds raced for one pair: the later commit was refused (500)
\* later on the clock than the row the other worker had inserted.
C9_Witness ==
    /\ resp.op = "update_services_of_location"
    /\ resp.status = 500
    /\ \E a \in assoc : a.location_id = resp.key /\ a.created_at < now

\* C10 (as stated): a list returns exactly the rows created and not yet
\* deleted, ordered by created_at descending with rows of equal created_at
\* in arrival order (ascending id), and a deleted entity is in no later list.
C10_ListArrivalOrder ==
    [][\A r \in Resources :
          /\ ListServed(r) =>
                LET body == resp'.body
                    rows == table[r]
                IN /\ resp'.status = 200
                   /\ Len(body) = Cardinality(rows)
                   /\ {body[i] : i \in DOMAIN body} = {x.id : x \in rows}
                   /\ \A i, j \in DOMAIN body :
                         i < j =>
                            \/ CreatedAt(rows, body[i]) > CreatedAt(rows, body[j])
                            \/ /\ CreatedAt(rows, body[i]) = CreatedAt(rows, body[j])
                               /\ body[i] < body[j]
          /\ \A id \in 1 .. seq[r] :
                (\A x \in table[r] : x.id # id)
                   => (\A x \in table'[r] : x.id # id)]_vars

\* C10 (amended): a list answers 200 with exactly the rows created and not
\* yet deleted, each once, in an order in which created_at never increases
\* (rows of equal created_at in any order); a row whose created_at is
\* greater than every other row's is first; and a deleted row never returns
\* to its table, so it is in no later list.
C10_ListNewestFirst ==
    [][\A r \in Resources :
          /\ ListServed(r) =>
                LET body == resp'.body
                    rows == table[r]
                IN /\ resp'.status = 200
                   /\ Len(body) = Cardinality(rows)
                   /\ {body[i] : i \in DOMAIN body} = {x.id : x \in rows}
                   /\ \A i, j \in DOMAIN body :
                         i < j => CreatedAt(rows, body[i])
                                     >= CreatedAt(rows, body[j])
                   /\ \A x \in rows :
                         (\A y \in rows \ {x} : x.created_at > y.created_at)
                            => body[1] = x.id
          /\ \A id \in 1 .. seq[r] :
                (\A x \in table[r] : x.id # id)
                   => (\A x \in table'[r] : x.id # id)]_vars

\* A list of two rows created at different readings of the clock, the
\* later one first.
C10_Witness ==
    \E r \in Resources :
        /\ resp.op = ListOp(r)
        /\ Len(resp.body) = 2
        /\ \E x, y \in table[r] :
              /\ x.id = resp.body[1]
              /\ y.id = resp.body[2]
              /\ x.created_at > y.created_at
              /\ x.id > y.id

\* C11: when a worker commits a create whose unique value another request
\* has committed already, it is answered 409 and the store is unchanged;
\* otherwise it commits (201); either way the store ends with exactly one
\* row holding the value.
C11_RacingCreatesConflict ==
    [][\A w \in Workers : \A r \in UniqueResources :
          (session[w].op = "create_" \o r /\ session'[w] = Idle) =>
             \A p \in session[w].new : \A f \in UniqueCols(r) :
                /\ IF \E x \in table[r] : x.cols[f] = p[f]
                   THEN resp'.status = 409 /\ table' = table
                   ELSE resp'.status = 201
                /\ Cardinality({x \in table'[r] : x.cols[f] = p[f]}) = 1]_vars

\* C12: a bulk-add is answered 200 or 404 and nothing else, however it is
\* interleaved with other workers' requests, and 404 only when the location
\* does not exist.
C12_BulkAddFailsOnlyNotFound ==
    [][resp'.op = "update_services_of_location" =>
          /\ resp'.status \in {200, 404}
          /\ resp'.status = 404 =>
                \A l \in table["location"] : l.id # resp'.key]_vars

\* C13: a PUT on an existing row that supplies an explicit null for a field
\* whose column does not allow NULL succeeds (200) and the stored value of
\* the field is kept.
C13_NullIgnoredForRequiredField ==
    [][\A r \in Resources : PutServed(r) =>
          \A f \in Fields(r) \ Nullable(r) : \A p \in UpdatePayloads[r] :
             (Put(r, PutKey(r), p) /\ p[f] = NULL) =>
                \A x \in Lookup(r, PutKey(r)) :
                   /\ resp'.status = 200
                   /\ \E y \in table'[r] : y.id = x.id /\ y.cols[f] = x.cols[f]]_vars

\* C14: for every resource, no create or update ever stores a string field
\* that is empty or carries leading or trailing whitespace.
C14_StoredStringsClean ==
    \A r \in Resources : \A x \in table[r] : \A f \in StrFields(r) :
        x.cols[f] # NULL => x.cols[f] # "" /\ Strip(x.cols[f]) = x.cols[f]

\* C15: in every reachable state, from application start onward, the
\* other_info table holds a row whose name is 'tiktok'.
C15_TiktokRowExists ==
    \E x \in table["other_info"] : x.cols["name"] = "tiktok"

\* C16: other_info writes are visible to the next read by name: a committed
\* create of (name, value) stores and returns a row with that name and value,
\* a committed update of the value to v2 stores and returns value v2, and a
\* lookup by that name served next answers 200 with the very row the write
\* returned.
C16_ReadYourWrites ==
    [][/\ \A p \in InfoCreates :
             (create_other_info(p) /\ resp'.status = 201) =>
                /\ resp'.row # {}
                /\ \A y \in resp'.row : y.cols = p
       /\ \A n \in InfoNames : \A v2 \in Strings :
             (/\ update_other_info(n, [Blank("other_info") EXCEPT !["value"] = v2])
              /\ resp'.status = 200) =>
                /\ resp'.row # {}
                /\ \A y \in resp'.row :
                      y.cols["name"] = n /\ y.cols["value"] = v2
       /\ (/\ resp'.op = "get_other_info"
           /\ \/ resp.op = "create_other_info" /\ resp.status = 201
              \/ resp.op = "update_other_info" /\ resp.status = 200
           /\ \E y \in resp.row : y.cols["name"] = resp'.name) =>
             /\ resp'.status = 200
             /\ resp'.row = resp.row]_vars

\* A lookup of 'tiktok' returned a row that an update had given its value.
C16_Witness ==
    /\ resp.op = "get_other_info"
    /\ resp.status = 200
    /\ resp.name = "tiktok"
    /\ \E y \in resp.row :
          /\ y.updated_at = ImportTime
          /\ y.cols["value"] \in Strings
          /\ \E x \in table["other_info"] : x.id # y.id

\* C17: when two concurrent PUT requests on the same row supply disjoint
\* fields, both take effect: each request's commit succeeds, stores the
\* values it supplied and leaves every other field as committed by then, so
\* that no field written by one request is reverted by the other.
C17_DisjointUpdatesBothApply ==
    [][\A w \in Workers : \A r \in UpdateResources :
          (session[w].op = "update_" \o r /\ session'[w] = Idle) =>
             \A p \in session[w].new : \A x \in Get(table[r], session[w].key) :
                /\ resp'.status = 200
                /\ \E y \in Get(table'[r], x.id) :
                      \A f \in Fields(r) :
                         y.cols[f] = IF p[f] # UNSET THEN p[f] ELSE x.cols[f]]_vars

====
